---- MODULE Spec2Model ----
(***************************************************************************)
(* A model of the hack_asm assembler: the bounded integer (hack_int.rs),   *)
(* the symbol table (symbol_table.rs), the instruction encoder             *)
(* (instructions.rs), the parser driver (parsing/parser.rs), the assembler *)
(* context (assembler_context.rs) and the assembler (assembler.rs).        *)
(*                                                                         *)
(* A Result<T, E> is a record: Ok(v) or Err(e).  A method taking &mut self *)
(* is an operator from the old object to [self |-> new object, ret |->     *)
(* Result].                                                                *)
(***************************************************************************)
EXTENDS Integers, Sequences, FiniteSets, TLC

VARIABLES
    input,          \* Assembler.input: the source text, as the parser's line pairs
    pc,             \* position inside Assembler::assemble: "start", "run", "done"
    instructions,   \* ParserOutput.instructions
    labels,         \* ParserOutput.labels
    next_label,     \* position of the `for (label, index)` loop (1-based)
    next_instr,     \* position of the `for instruction` loop (1-based)
    padded,         \* whether the repeated prefix of the program has been fed
    context,        \* Assembler.context: the AssemblerContext
    result,         \* what assemble returned
    table,          \* a SymbolTable driven directly through its public methods
    call,           \* the last call made by a harness (operation and arguments)
    ret             \* what that call returned

vars == <<input, pc, instructions, labels, next_label, next_instr, padded,
          context, result, table, call, ret>>

runVars == <<input, pc, instructions, labels, next_label, next_instr, padded,
             context, result>>

Ok(v) == [ok |-> TRUE, val |-> v]
Err(e) == [ok |-> FALSE, err |-> e]

U16 == 65536

(***************************************************************************)
(* Bitwise OR of two 16-bit words (the `|=` of CInstruction::compile).     *)
(***************************************************************************)
RECURSIVE BitOrN(_, _, _)
BitOrN(a, b, n) ==
    IF n = 0 THEN 0
    ELSE (IF a % 2 = 1 \/ b % 2 = 1 THEN 1 ELSE 0)
         + 2 * BitOrN(a \div 2, b \div 2, n - 1)

BitOr(a, b) == BitOrN(a, b, 16)

(***************************************************************************)
(* hack_int.rs                                                             *)
(***************************************************************************)
HackInt_MAX == 32767

\* HackInt::try_new(value: u16)
HackInt_try_new(value) ==
    IF value > HackInt_MAX THEN Err("SizeExceeded") ELSE Ok(value)

\* <u16 as FromStr>::from_str on a string of decimal digits: an empty string
\* and a value that does not fit in 16 bits are both a ParseIntError.
RECURSIVE U16FromDigits(_, _)
U16FromDigits(digits, acc) ==
    IF digits = <<>> THEN Ok(acc)
    ELSE LET next == acc * 10 + Head(digits)
         IN  IF next >= U16 THEN Err("ParseInt")
             ELSE U16FromDigits(Tail(digits), next)

u16_from_str(digits) ==
    IF digits = <<>> THEN Err("ParseInt") ELSE U16FromDigits(digits, 0)

\* HackInt::parse(input: &str): `input.parse()?` then try_new
HackInt_parse(digits) ==
    LET value == u16_from_str(digits)
    IN  IF value.ok THEN HackInt_try_new(value.val) ELSE value

\* HackInt::new_unchecked(value: u16): no range check
HackInt_new_unchecked(value) == value

(***************************************************************************)
(* symbol_table.rs                                                         *)
(***************************************************************************)
BuiltInNames ==
    {"R0", "R1", "R2", "R3", "R4", "R5", "R6", "R7", "R8", "R9", "R10", "R11",
     "R12", "R13", "R14", "R15", "SCREEN", "KBD", "SP", "LCL", "ARG", "THIS",
     "THAT"}

\* BUILT_IN.get(name), for a name of the map
BUILT_IN(name) ==
    CASE name = "R0" -> HackInt_new_unchecked(0)
      [] name = "R1" -> HackInt_new_unchecked(1)
      [] name = "R2" -> HackInt_new_unchecked(2)
      [] name = "R3" -> HackInt_new_unchecked(3)
      [] name = "R4" -> HackInt_new_unchecked(4)
      [] name = "R5" -> HackInt_new_unchecked(5)
      [] name = "R6" -> HackInt_new_unchecked(6)
      [] name = "R7" -> HackInt_new_unchecked(7)
      [] name = "R8" -> HackInt_new_unchecked(8)
      [] name = "R9" -> HackInt_new_unchecked(9)
      [] name = "R10" -> HackInt_new_unchecked(10)
      [] name = "R11" -> HackInt_new_unchecked(11)
      [] name = "R12" -> HackInt_new_unchecked(12)
      [] name = "R13" -> HackInt_new_unchecked(13)
      [] name = "R14" -> HackInt_new_unchecked(14)
      [] name = "R15" -> HackInt_new_unchecked(15)
      [] name = "SCREEN" -> HackInt_new_unchecked(16384)
      [] name = "KBD" -> HackInt_new_unchecked(24576)
      [] name = "SP" -> HackInt_new_unchecked(0)
      [] name = "LCL" -> HackInt_new_unchecked(1)
      [] name = "ARG" -> HackInt_new_unchecked(2)
      [] name = "THIS" -> HackInt_new_unchecked(3)
      [] name = "THAT" -> HackInt_new_unchecked(4)

\* BUILT_IN.get(name).is_some()
IsBuiltIn(name) == name \in BuiltInNames

EmptyMap == [n \in {} |-> 0]

\* SymbolTable::new().  `table` is the HashMap.  `anon` counts the entries of
\* the map for the variables "$1" .. "$anon" of a program's repeated prefix,
\* which hold the addresses 16 .. 15 + anon (see feed_prefix); it is 0 in a
\* table no prefix was fed to.
SymbolTable_new ==
    [table |-> EmptyMap, anon |-> 0, variable_index |-> HackInt_new_unchecked(16)]

\* set without the look-up in BUILT_IN
SymbolTable_set_no_built_in_check(self, name, value) ==
    IF name \in DOMAIN self.table
    THEN [self |-> self, ret |-> Err("Redefined")]
    ELSE [self |-> [self EXCEPT !.table =
                        [n \in DOMAIN self.table \cup {name} |->
                            IF n = name THEN value ELSE self.table[n]]],
          ret |-> Ok("unit")]

\* set that overwrites an occupied entry
SymbolTable_set_overwrite(self, name, value) ==
    IF IsBuiltIn(name)
    THEN [self |-> self, ret |-> Err("RedefinedBuiltIn")]
    ELSE [self |-> [self EXCEPT !.table =
                        [n \in DOMAIN self.table \cup {name} |->
                            IF n = name THEN value ELSE self.table[n]]],
          ret |-> Ok("unit")]

\* SymbolTable::set(&mut self, name, value)
SymbolTable_set(self, name, value) ==
    IF IsBuiltIn(name)
    THEN [self |-> self, ret |-> Err("RedefinedBuiltIn")]
    ELSE IF name \in DOMAIN self.table
    THEN [self |-> self, ret |-> Err("Redefined")]
    ELSE [self |-> [self EXCEPT !.table =
                        [n \in DOMAIN self.table \cup {name} |->
                            IF n = name THEN value ELSE self.table[n]]],
          ret |-> Ok("unit")]

\* SymbolTable::get(&self, name)
SymbolTable_get(self, name) ==
    IF IsBuiltIn(name) THEN Ok(BUILT_IN(name))
    ELSE IF name \in DOMAIN self.table THEN Ok(self.table[name])
    ELSE Err("NotDefined")

\* SymbolTable::get_variable_index(&mut self)
SymbolTable_get_variable_index(self) == self.variable_index

\* SymbolTable::increment_variable_index(&mut self)
SymbolTable_increment_variable_index(self) ==
    LET index == self.variable_index
        next == HackInt_try_new(index + 1)
    IN  IF next.ok
        THEN [self |-> [self EXCEPT !.variable_index = next.val], ret |-> Ok("unit")]
        ELSE [self |-> self, ret |-> next]

(***************************************************************************)
(* instructions.rs                                                         *)
(***************************************************************************)
None == <<>>
Some(x) == <<x>>
Unwrap(o) == o[1]

Immediate(val) == [kind |-> "Immediate", val |-> val]
Symbol(name) == [kind |-> "Symbol", name |-> name]

\* compile that moves the cursor for a symbol the table resolves too
AInstruction_compile_lookup_advances(self, symbol_table) ==
    IF self.kind = "Immediate"
    THEN [self |-> symbol_table, ret |-> Ok(self.val)]
    ELSE LET found == SymbolTable_get(symbol_table, self.name)
         IN  IF found.ok
             THEN [self |-> SymbolTable_increment_variable_index(symbol_table).self,
                   ret |-> Ok(found.val)]
             ELSE LET index == SymbolTable_get_variable_index(symbol_table)
                      inc == SymbolTable_increment_variable_index(symbol_table)
                      set == SymbolTable_set(inc.self, self.name, index)
                  IN  IF ~inc.ret.ok THEN [self |-> inc.self, ret |-> inc.ret]
                      ELSE IF ~set.ret.ok THEN [self |-> set.self, ret |-> set.ret]
                      ELSE [self |-> set.self, ret |-> Ok(index)]

\* <AInstruction as Compilable>::compile(&self, symbol_table)
AInstruction_compile(self, symbol_table) ==
    IF self.kind = "Immediate"
    THEN [self |-> symbol_table, ret |-> Ok(self.val)]
    ELSE LET found == SymbolTable_get(symbol_table, self.name)
         IN  IF found.ok
             THEN [self |-> symbol_table, ret |-> Ok(found.val)]
             ELSE LET index == SymbolTable_get_variable_index(symbol_table)
                      inc == SymbolTable_increment_variable_index(symbol_table)
                      set == SymbolTable_set(inc.self, self.name, index)
                  IN  IF ~inc.ret.ok THEN [self |-> inc.self, ret |-> inc.ret]
                      ELSE IF ~set.ret.ok THEN [self |-> set.self, ret |-> set.ret]
                      ELSE [self |-> set.self, ret |-> Ok(index)]

\* DEST_TABLE with the bits of A and M exchanged
DEST_TABLE_a_m_exchanged(dest) ==
    CASE dest = "M" -> Some(\b0000000000100000)
      [] dest = "D" -> Some(\b0000000000010000)
      [] dest = "MD" -> Some(\b0000000000110000)
      [] dest = "A" -> Some(\b0000000000001000)
      [] dest = "AM" -> Some(\b0000000000101000)
      [] dest = "AD" -> Some(\b0000000000011000)
      [] dest = "AMD" -> Some(\b0000000000111000)
      [] OTHER -> None

\* CInstruction::DEST_TABLE.get(dest)
DEST_TABLE(dest) ==
    CASE dest = "M" -> Some(\b0000000000001000)
      [] dest = "D" -> Some(\b0000000000010000)
      [] dest = "MD" -> Some(\b0000000000011000)
      [] dest = "A" -> Some(\b0000000000100000)
      [] dest = "AM" -> Some(\b0000000000101000)
      [] dest = "AD" -> Some(\b0000000000110000)
      [] dest = "AMD" -> Some(\b0000000000111000)
      [] OTHER -> None

\* COMP_TABLE in which a subtraction has the bits of its operands exchanged
\* (A-D those of D-A, M-D those of D-M)
COMP_TABLE_subtraction_commuted(computation) ==
    CASE computation = "0" -> Some(\b0000101010000000)
      [] computation = "1" -> Some(\b0000111111000000)
      [] computation = "-1" -> Some(\b0000111010000000)
      [] computation = "D" -> Some(\b0000001100000000)
      [] computation = "A" -> Some(\b0000110000000000)
      [] computation = "!D" -> Some(\b0000001101000000)
      [] computation = "!A" -> Some(\b0000110001000000)
      [] computation = "-D" -> Some(\b0000001111000000)
      [] computation = "-A" -> Some(\b0000110011000000)
      [] computation = "D+1" -> Some(\b0000011111000000)
      [] computation = "A+1" -> Some(\b0000110111000000)
      [] computation = "D-1" -> Some(\b0000001110000000)
      [] computation = "A-1" -> Some(\b0000110010000000)
      [] computation = "D+A" -> Some(\b0000000010000000)
      [] computation = "A+D" -> Some(\b0000000010000000)
      [] computation = "D-A" -> Some(\b0000010011000000)
      [] computation = "A-D" -> Some(\b0000010011000000)
      [] computation = "D&A" -> Some(\b0000000000000000)
      [] computation = "A&D" -> Some(\b0000000000000000)
      [] computation = "D|A" -> Some(\b0000010101000000)
      [] computation = "A|D" -> Some(\b0000010101000000)
      [] computation = "M" -> Some(\b0001110000000000)
      [] computation = "!M" -> Some(\b0001110001000000)
      [] computation = "-M" -> Some(\b0001110011000000)
      [] computation = "M+1" -> Some(\b0001110111000000)
      [] computation = "M-1" -> Some(\b0001110010000000)
      [] computation = "D+M" -> Some(\b0001000010000000)
      [] computation = "M+D" -> Some(\b0001000010000000)
      [] computation = "D-M" -> Some(\b0001010011000000)
      [] computation = "M-D" -> Some(\b0001010011000000)
      [] computation = "D&M" -> Some(\b0001000000000000)
      [] computation = "M&D" -> Some(\b0001000000000000)
      [] computation = "D|M" -> Some(\b0001010101000000)
      [] computation = "M|D" -> Some(\b0001010101000000)
      [] OTHER -> None

\* CInstruction::COMP_TABLE.get(computation)
COMP_TABLE(computation) ==
    CASE computation = "0" -> Some(\b0000101010000000)
      [] computation = "1" -> Some(\b0000111111000000)
      [] computation = "-1" -> Some(\b0000111010000000)
      [] computation = "D" -> Some(\b0000001100000000)
      [] computation = "A" -> Some(\b0000110000000000)
      [] computation = "!D" -> Some(\b0000001101000000)
      [] computation = "!A" -> Some(\b0000110001000000)
      [] computation = "-D" -> Some(\b0000001111000000)
      [] computation = "-A" -> Some(\b0000110011000000)
      [] computation = "D+1" -> Some(\b0000011111000000)
      [] computation = "A+1" -> Some(\b0000110111000000)
      [] computation = "D-1" -> Some(\b0000001110000000)
      [] computation = "A-1" -> Some(\b0000110010000000)
      [] computation = "D+A" -> Some(\b0000000010000000)
      [] computation = "A+D" -> Some(\b0000000010000000)
      [] computation = "D-A" -> Some(\b0000010011000000)
      [] computation = "A-D" -> Some(\b0000000111000000)
      [] computation = "D&A" -> Some(\b0000000000000000)
      [] computation = "A&D" -> Some(\b0000000000000000)
      [] computation = "D|A" -> Some(\b0000010101000000)
      [] computation = "A|D" -> Some(\b0000010101000000)
      [] computation = "M" -> Some(\b0001110000000000)
      [] computation = "!M" -> Some(\b0001110001000000)
      [] computation = "-M" -> Some(\b0001110011000000)
      [] computation = "M+1" -> Some(\b0001110111000000)
      [] computation = "M-1" -> Some(\b0001110010000000)
      [] computation = "D+M" -> Some(\b0001000010000000)
      [] computation = "M+D" -> Some(\b0001000010000000)
      [] computation = "D-M" -> Some(\b0001010011000000)
      [] computation = "M-D" -> Some(\b0001000111000000)
      [] computation = "D&M" -> Some(\b0001000000000000)
      [] computation = "M&D" -> Some(\b0001000000000000)
      [] computation = "D|M" -> Some(\b0001010101000000)
      [] computation = "M|D" -> Some(\b0001010101000000)
      [] OTHER -> None

\* CInstruction::JMP_TABLE.get(jump)
JMP_TABLE(jump) ==
    CASE jump = "JGT" -> Some(\b0000000000000001)
      [] jump = "JEQ" -> Some(\b0000000000000010)
      [] jump = "JGE" -> Some(\b0000000000000011)
      [] jump = "JLT" -> Some(\b0000000000000100)
      [] jump = "JNE" -> Some(\b0000000000000101)
      [] jump = "JLE" -> Some(\b0000000000000110)
      [] jump = "JMP" -> Some(\b0000000000000111)
      [] jump = "" -> Some(\b0000000000000000)
      [] OTHER -> None

\* <CInstruction as Compilable>::compile(&self, _): destination and jump are
\* Option<&str>, computation is a &str
CInstruction_compile(self) ==
    LET start == \b1110000000000000
        dest == IF self.destination = None THEN Some(0)
                ELSE DEST_TABLE(Unwrap(self.destination))
        comp == COMP_TABLE(self.computation)
        jump == IF self.jump = None THEN Some(0)
                ELSE JMP_TABLE(Unwrap(self.jump))
    IN  IF dest = None THEN Err("Destination")
        ELSE IF comp = None THEN Err("Computation")
        ELSE IF jump = None THEN Err("Jump")
        ELSE Ok(BitOr(BitOr(BitOr(start, Unwrap(dest)), Unwrap(comp)), Unwrap(jump)))

(***************************************************************************)
(* parsing/: the source text is modelled as what the grammar hands to      *)
(* parse_str, the sequence of line pairs of the program (comments and      *)
(* blank lines produce no pair).  A program is                             *)
(*   [nvar, nlit, body]:                                                   *)
(* nvar lines "@$1" .. "@$nvar" (distinct symbols no other line uses),     *)
(* then nlit lines "@0", then the pairs of body.  The repeated prefix is   *)
(* kept as two counts so that programs of the size of the ROM are states   *)
(* of a few words.                                                         *)
(***************************************************************************)
LabelLine(name) == [rule |-> "label", text |-> name]
SymbolLine(name) == [rule |-> "at_instruction", inner |-> "symbol", text |-> name]
LiteralLine(digits) == [rule |-> "at_instruction", inner |-> "literal", digits |-> digits]
CLine(dest, comp, jump) ==
    [rule |-> "c_instruction", destination |-> dest, computation |-> comp, jump |-> jump]

AValue_Symbol(name) == [kind |-> "Symbol", name |-> name]
AValue_Literal(val) == [kind |-> "Literal", val |-> val]

\* char::to_ascii_uppercase: a lower-case ASCII letter becomes its upper-case
\* letter, every other character is left as it is
to_ascii_uppercase(c) ==
    CASE c = "a" -> "A"
      [] c = "b" -> "B"
      [] c = "c" -> "C"
      [] c = "d" -> "D"
      [] c = "e" -> "E"
      [] c = "f" -> "F"
      [] c = "g" -> "G"
      [] c = "h" -> "H"
      [] c = "i" -> "I"
      [] c = "j" -> "J"
      [] c = "k" -> "K"
      [] c = "l" -> "L"
      [] c = "m" -> "M"
      [] c = "n" -> "N"
      [] c = "o" -> "O"
      [] c = "p" -> "P"
      [] c = "q" -> "Q"
      [] c = "r" -> "R"
      [] c = "s" -> "S"
      [] c = "t" -> "T"
      [] c = "u" -> "U"
      [] c = "v" -> "V"
      [] c = "w" -> "W"
      [] c = "x" -> "X"
      [] c = "y" -> "Y"
      [] c = "z" -> "Z"
      [] OTHER -> c

\* parsing::c_instruction::register
register(text) == to_ascii_uppercase(text)

\* parsing::c_instruction::c_dest: one Register per letter, in written order
c_dest(dest) == [k \in 1..Len(dest) |-> to_ascii_uppercase(dest[k])]

\* parsing::c_instruction::constant
constant(comp) ==
    CASE comp.parts[1] = "1" -> [op |-> "Literal", val |-> 1]
      [] comp.parts[1] = "0" -> [op |-> "Literal", val |-> 0]
      [] comp.parts[1] = "-1" -> [op |-> "Literal", val |-> -1]

\* parsing::c_instruction::unary
unary(comp) ==
    LET parts == comp.parts
    IN  IF parts[1] \in {"A", "M", "D", "a", "m", "d"}
        THEN CASE parts[2] = "+1" -> [op |-> "Inc", reg |-> register(parts[1])]
               [] parts[2] = "-1" -> [op |-> "Dec", reg |-> register(parts[1])]
        ELSE CASE parts[1] = "!" -> [op |-> "Not", reg |-> register(parts[2])]
               [] parts[1] = "-" -> [op |-> "Neg", reg |-> register(parts[2])]

\* parsing::c_instruction::binary
binary(comp) ==
    LET parts == comp.parts
        reg2 == parts[3]
        op == parts[2]
        reg1 == parts[1]
    IN  CASE op = "+" -> [op |-> "Add", reg1 |-> register(reg1), reg2 |-> register(reg2)]
          [] op = "-" -> [op |-> "Sub", reg1 |-> register(reg1), reg2 |-> register(reg2)]
          [] op = "|" -> [op |-> "Or", reg1 |-> register(reg1), reg2 |-> register(reg2)]
          [] op = "&" -> [op |-> "And", reg1 |-> register(reg1), reg2 |-> register(reg2)]

\* parsing::c_instruction::c_comp
c_comp(comp) ==
    CASE comp.rule = "constant" -> constant(comp)
      [] comp.rule = "register" -> [op |-> "Identity", reg |-> register(comp.parts[1])]
      [] comp.rule = "unary" -> unary(comp)
      [] comp.rule = "binary" -> binary(comp)

\* The ASCII letters, and the three-letter texts that
\* str::to_ascii_uppercase turns into the text a \o b \o c
AsciiLetters ==
    {"a", "b", "c", "d", "e", "f", "g", "h", "i", "j", "k", "l", "m",
     "n", "o", "p", "q", "r", "s", "t", "u", "v", "w", "x", "y", "z",
     "A", "B", "C", "D", "E", "F", "G", "H", "I", "J", "K", "L", "M",
     "N", "O", "P", "Q", "R", "S", "T", "U", "V", "W", "X", "Y", "Z"}
UppercasedTo(a, b, c) ==
    {x \o y \o z :
        x \in {l \in AsciiLetters : to_ascii_uppercase(l) = a},
        y \in {l \in AsciiLetters : to_ascii_uppercase(l) = b},
        z \in {l \in AsciiLetters : to_ascii_uppercase(l) = c}}

\* parsing::c_instruction::c_jump: the match on the upper-cased text; any
\* other text is the unreachable!() arm and has no value
c_jump(jump) ==
    CASE jump \in UppercasedTo("J", "M", "P") -> "JMP"
      [] jump \in UppercasedTo("J", "G", "T") -> "JGT"
      [] jump \in UppercasedTo("J", "E", "Q") -> "JEQ"
      [] jump \in UppercasedTo("J", "L", "T") -> "JLT"
      [] jump \in UppercasedTo("J", "G", "E") -> "JGE"
      [] jump \in UppercasedTo("J", "L", "E") -> "JLE"
      [] jump \in UppercasedTo("J", "N", "E") -> "JNE"

\* parsing::c_instruction::c_instruction
c_instruction(pair) ==
    [type |-> "CInstruction",
     destination |-> IF pair.destination = None THEN None
                     ELSE Some(c_dest(Unwrap(pair.destination))),
     computation |-> c_comp(pair.computation),
     jump |-> IF pair.jump = None THEN None ELSE Some(c_jump(Unwrap(pair.jump)))]

\* parsing::a_instruction::a_instruction
a_instruction(pair) ==
    IF pair.inner = "symbol"
    THEN Ok([type |-> "AInstruction", value |-> AValue_Symbol(pair.text)])
    ELSE LET lit == HackInt_parse(pair.digits)
         IN  IF lit.ok
             THEN Ok([type |-> "AInstruction", value |-> AValue_Literal(lit.val)])
             ELSE lit

\* parsing::label::label
label(pair) == [name |-> pair.text]

\* parse_loop with a label line counted as an instruction
RECURSIVE parse_loop_label_counted(_, _, _, _)
parse_loop_label_counted(pairs, count, instrs, labs) ==
    IF pairs = <<>> THEN Ok([instructions |-> instrs, labels |-> labs])
    ELSE LET pair == Head(pairs)
         IN  CASE pair.rule = "at_instruction" ->
                    LET a == a_instruction(pair)
                    IN  IF a.ok
                        THEN parse_loop_label_counted(Tail(pairs), count + 1,
                                                      Append(instrs, a.val), labs)
                        ELSE a
               [] pair.rule = "c_instruction" ->
                    parse_loop_label_counted(Tail(pairs), count + 1,
                                             Append(instrs, c_instruction(pair)), labs)
               [] pair.rule = "label" ->
                    parse_loop_label_counted(Tail(pairs), count + 1, instrs,
                                             Append(labs, <<label(pair), count>>))

\* The `for instruction in program.into_inner()` loop of parse_str.  `count`
\* is instructions.len(): the prefix's lines and those pushed so far.
RECURSIVE parse_loop(_, _, _, _)
parse_loop(pairs, count, instrs, labs) ==
    IF pairs = <<>> THEN Ok([instructions |-> instrs, labels |-> labs])
    ELSE LET pair == Head(pairs)
         IN  CASE pair.rule = "at_instruction" ->
                    LET a == a_instruction(pair)
                    IN  IF a.ok
                        THEN parse_loop(Tail(pairs), count + 1, Append(instrs, a.val), labs)
                        ELSE a
               [] pair.rule = "c_instruction" ->
                    parse_loop(Tail(pairs), count + 1,
                               Append(instrs, c_instruction(pair)), labs)
               [] pair.rule = "label" ->
                    parse_loop(Tail(pairs), count, instrs,
                               Append(labs, <<label(pair), count>>))

\* parsing::parser::parse_str
parse_str(program) ==
    LET out == parse_loop(program.body, program.nvar + program.nlit, <<>>, <<>>)
    IN  IF out.ok
        THEN Ok([instructions |-> [nvar |-> program.nvar, nlit |-> program.nlit,
                                   body |-> out.val.instructions],
                 labels |-> out.val.labels])
        ELSE out

(***************************************************************************)
(* assembler_context.rs                                                    *)
(***************************************************************************)
\* crate::constants::ROM_SIZE and MEMORY_SIZE
ROM_SIZE == 32767
MEMORY_SIZE == 16383

(***************************************************************************)
(* The output Vec<u16>, kept as [vars, lits, tail]: the words of the       *)
(* program's repeated prefix (vars words 16 .. 15 + vars, then lits words  *)
(* 0) as two counts, followed by the words of tail.                        *)
(***************************************************************************)
EmptyOutput == [vars |-> 0, lits |-> 0, tail |-> <<>>]
OutputLen(output) == output.vars + output.lits + Len(output.tail)
OutputWord(output, i) ==
    IF i <= output.vars THEN 15 + i
    ELSE IF i <= output.vars + output.lits THEN 0
    ELSE output.tail[i - output.vars - output.lits]
OutputPush(output, bits) == [output EXCEPT !.tail = Append(@, bits)]

\* <AssemblerContext as Default>::default()
AssemblerContext_default ==
    [symbol_table |-> SymbolTable_new,
     current_variable_address |-> HackInt_new_unchecked(16),
     current_label_address |-> HackInt_new_unchecked(0),
     output |-> EmptyOutput]

\* AssemblerContext::set_symbol
set_symbol(self, name, value) ==
    LET set == SymbolTable_set(self.symbol_table, name, value)
    IN  [self |-> [self EXCEPT !.symbol_table = set.self], ret |-> set.ret]

\* AssemblerContext::get_symbol
get_symbol(self, name) == SymbolTable_get(self.symbol_table, name)

\* register_label that drops the error of set
register_label_error_dropped(self, lab, address) ==
    LET addr == HackInt_new_unchecked(address % U16)
        set == SymbolTable_set(self.symbol_table, lab.name, addr)
    IN  [self |-> [self EXCEPT !.symbol_table = set.self], ret |-> Ok("unit")]

\* AssemblerContext::register_label(&mut self, label, address: usize)
register_label(self, lab, address) ==
    LET addr == HackInt_new_unchecked(address % U16)
        set == SymbolTable_set(self.symbol_table, lab.name, addr)
    IN  [self |-> [self EXCEPT !.symbol_table = set.self], ret |-> set.ret]

\* push_instruction that refuses a word only past the capacity
push_instruction_past_capacity(self, bits) ==
    IF OutputLen(self.output) > ROM_SIZE
    THEN [self |-> self, ret |-> Err("TooManyInstructions")]
    ELSE [self |-> [self EXCEPT !.output = OutputPush(@, bits),
                                !.current_label_address = @ + 1],
          ret |-> Ok("unit")]

\* AssemblerContext::push_instruction(&mut self, bits)
push_instruction(self, bits) ==
    IF OutputLen(self.output) >= ROM_SIZE
    THEN [self |-> self, ret |-> Err("TooManyInstructions")]
    ELSE [self |-> [self EXCEPT !.output = OutputPush(@, bits),
                                !.current_label_address = @ + 1],
          ret |-> Ok("unit")]

\* get_or_create_variable that leaves the cursor where it was
get_or_create_variable_no_advance(self, name) ==
    LET found == get_symbol(self, name)
        set == set_symbol(self, name, self.current_variable_address)
    IN  IF found.ok THEN [self |-> self, ret |-> Ok(found.val)]
        ELSE IF self.current_variable_address >= MEMORY_SIZE
        THEN [self |-> self, ret |-> Err("TooManyVariables")]
        ELSE IF ~set.ret.ok THEN set
        ELSE [self |-> set.self, ret |-> Ok(self.current_variable_address)]

\* AssemblerContext::get_or_create_variable(&mut self, name)
get_or_create_variable(self, name) ==
    LET found == get_symbol(self, name)
        set == set_symbol(self, name, self.current_variable_address)
    IN  IF found.ok THEN [self |-> self, ret |-> Ok(found.val)]
        ELSE IF self.current_variable_address >= MEMORY_SIZE
        THEN [self |-> self, ret |-> Err("TooManyVariables")]
        ELSE IF ~set.ret.ok THEN set
        ELSE [self |-> [set.self EXCEPT !.current_variable_address = @ + 1],
              ret |-> Ok(self.current_variable_address)]

\* AInstruction::to_u16(&self, context): a literal is its value, a symbol is
\* resolved by get_or_create_variable
AInstruction_to_u16(instr, self) ==
    IF instr.value.kind = "Literal"
    THEN [self |-> self, ret |-> Ok(instr.value.val)]
    ELSE get_or_create_variable(self, instr.value.name)

\* The key of a Computation in COMP_TABLE
CompKey(c) ==
    CASE c.op = "Literal" -> (CASE c.val = 0 -> "0" [] c.val = 1 -> "1" [] c.val = -1 -> "-1")
      [] c.op = "Identity" -> c.reg
      [] c.op = "Inc" -> c.reg \o "+1"
      [] c.op = "Dec" -> c.reg \o "-1"
      [] c.op = "Not" -> "!" \o c.reg
      [] c.op = "Neg" -> "-" \o c.reg
      [] c.op = "Add" -> c.reg1 \o "+" \o c.reg2
      [] c.op = "Sub" -> c.reg1 \o "-" \o c.reg2
      [] c.op = "Or" -> c.reg1 \o "|" \o c.reg2
      [] c.op = "And" -> c.reg1 \o "&" \o c.reg2

\* The key of a destination in DEST_TABLE: its registers in the order A, M, D
DestKey(regs) ==
    LET has(r) == \E k \in 1..Len(regs) : regs[k] = r
    IN  (IF has("A") THEN "A" ELSE "") \o (IF has("M") THEN "M" ELSE "")
        \o (IF has("D") THEN "D" ELSE "")

\* CInstruction::to_u16(&self): the three table lookups, OR-combined
CInstruction_to_u16(instr) ==
    CInstruction_compile(
        [destination |-> IF instr.destination = None THEN None
                         ELSE Some(DestKey(Unwrap(instr.destination))),
         computation |-> CompKey(instr.computation),
         jump |-> instr.jump]).val

\* feed_instruction that encodes a C-instruction and drops its word
feed_instruction_c_dropped(self, instr) ==
    IF instr.type = "AInstruction"
    THEN LET bits == AInstruction_to_u16(instr, self)
         IN  IF bits.ret.ok THEN push_instruction(bits.self, bits.ret.val)
             ELSE bits
    ELSE [self |-> self, ret |-> Ok("unit")]

\* AssemblerContext::feed_instruction(&mut self, instr)
feed_instruction(self, instr) ==
    IF instr.type = "AInstruction"
    THEN LET bits == AInstruction_to_u16(instr, self)
         IN  IF bits.ret.ok THEN push_instruction(bits.self, bits.ret.val)
             ELSE bits
    ELSE push_instruction(self, CInstruction_to_u16(instr))

(***************************************************************************)
(* feed_instruction applied to the nvar + nlit instructions of a program's *)
(* repeated prefix, in one step, on a context whose output is empty and    *)
(* whose cursor no variable has moved: what that many iterations of the    *)
(* loop of assemble leave.  Iteration k of the first nvar allocates "$k"   *)
(* at the cursor (get_or_create_variable) and pushes the address; each of  *)
(* the next nlit pushes 0.  The first failing iteration ends the loop.     *)
(***************************************************************************)
Min(a, b) == IF a <= b THEN a ELSE b
Max(a, b) == IF a >= b THEN a ELSE b

feed_prefix(self, nvar, nlit) ==
    LET free == Max(0, MEMORY_SIZE - self.current_variable_address)
        room == Max(0, ROM_SIZE - OutputLen(self.output))
        \* iterations of the first kind that allocate, and that push
        allocated == Min(nvar, free)
        pushedVars == Min(allocated, room)
        varsDone == pushedVars = nvar
        pushedLits == IF varsDone THEN Min(nlit, room - pushedVars) ELSE 0
        after == [self EXCEPT
                    !.symbol_table.anon = @ + Min(allocated, pushedVars + 1),
                    !.current_variable_address = @ + Min(allocated, pushedVars + 1),
                    !.current_label_address = @ + pushedVars + pushedLits,
                    !.output.vars = @ + pushedVars,
                    !.output.lits = @ + pushedLits]
    IN  IF ~varsDone
        THEN [self |-> after,
              ret |-> IF pushedVars = allocated THEN Err("TooManyVariables")
                      ELSE Err("TooManyInstructions")]
        ELSE IF pushedLits < nlit
        THEN [self |-> after, ret |-> Err("TooManyInstructions")]
        ELSE [self |-> after, ret |-> Ok("unit")]

\* AssemblerContext::into_output(self)
into_output(self) == self.output

(***************************************************************************)
(* assembler.rs: one run of Assembler::assemble, one step per parse, per   *)
(* iteration of its two loops and per return.                              *)
(***************************************************************************)
MaxLines == 3       \* lines of a program without a repeated prefix
MaxTail == 2        \* lines after a repeated prefix
Slack == 1          \* how far below a capacity the repeated prefixes start

Lines ==
    {LabelLine("LOOP"), LabelLine("END"), LabelLine("KBD"),
     SymbolLine("LOOP"), SymbolLine("END"), SymbolLine("i"), SymbolLine("j"),
     SymbolLine("KBD"),
     LiteralLine(<<5>>), LiteralLine(<<3, 2, 7, 6, 8>>),
     CLine(Some(<<"M", "D">>), [rule |-> "binary", parts |-> <<"D", "+", "A">>],
           Some("JGT")),
     CLine(None, [rule |-> "constant", parts |-> <<"0">>], Some("jMp"))}

SeqsUpTo(S, n) == UNION {[1..k -> S] : k \in 0..n}

\* The repeated prefixes: none; nvar variables up to the number of free
\* addresses; prefixes that fill the ROM up to its capacity, made of
\* literals alone or of every free address and literals; and as many
\* literals as a u16 has values.
FreeAddresses == MEMORY_SIZE - 16
Prefixes ==
    {[nvar |-> FreeAddresses - s, nlit |-> 0] : s \in 0..Slack}
    \cup {[nvar |-> 0, nlit |-> ROM_SIZE - s] : s \in 0..Slack}
    \cup {[nvar |-> FreeAddresses, nlit |-> ROM_SIZE - FreeAddresses - s] : s \in 0..Slack}
    \cup {[nvar |-> 0, nlit |-> U16]}

Programs ==
    {[nvar |-> 0, nlit |-> 0, body |-> b] : b \in SeqsUpTo(Lines, MaxLines)}
    \cup {[nvar |-> p.nvar, nlit |-> p.nlit, body |-> b] :
            p \in Prefixes, b \in SeqsUpTo(Lines, MaxTail)}

NoCall == [op |-> "none"]

\* Assembler::new(input)
Init ==
    /\ input \in Programs
    /\ pc = "start"
    /\ instructions = [nvar |-> 0, nlit |-> 0, body |-> <<>>]
    /\ labels = <<>>
    /\ next_label = 1
    /\ next_instr = 1
    /\ padded = FALSE
    /\ context = AssemblerContext_default
    /\ result = NoCall
    /\ table = SymbolTable_new
    /\ call = NoCall
    /\ ret = NoCall

\* `let parser_output = parse_str(self.input)?;`
Parse ==
    /\ pc = "start"
    /\ LET out == parse_str(input)
       IN  IF out.ok
           THEN /\ instructions' = out.val.instructions
                /\ labels' = out.val.labels
                /\ pc' = "run"
                /\ UNCHANGED result
           ELSE /\ pc' = "done"
                /\ result' = out
                /\ UNCHANGED <<instructions, labels>>
    /\ UNCHANGED <<input, next_label, next_instr, padded, context, table, call, ret>>

\* the second loop of assemble not waiting for the first
LabelsRegistered_interleaved == TRUE

\* The first loop of assemble has run to its end
LabelsRegistered == next_label > Len(labels)

\* One iteration of `for (label, index) in parser_output.labels`
RegisterLabel ==
    /\ pc = "run"
    /\ next_label <= Len(labels)
    /\ LET r == register_label(context, labels[next_label][1], labels[next_label][2])
       IN  /\ context' = r.self
           /\ IF r.ret.ok
              THEN /\ next_label' = next_label + 1
                   /\ UNCHANGED <<pc, result>>
              ELSE /\ pc' = "done"
                   /\ result' = r.ret
                   /\ UNCHANGED next_label
    /\ UNCHANGED <<input, instructions, labels, next_instr, padded, table, call, ret>>

\* The iterations of `for instruction in parser_output.instructions` over
\* the program's repeated prefix
FeedPrefix ==
    /\ pc = "run"
    /\ LabelsRegistered
    /\ ~padded
    /\ instructions.nvar + instructions.nlit > 0
    /\ LET r == feed_prefix(context, instructions.nvar, instructions.nlit)
       IN  /\ context' = r.self
           /\ IF r.ret.ok
              THEN /\ padded' = TRUE
                   /\ UNCHANGED <<pc, result>>
              ELSE /\ pc' = "done"
                   /\ result' = r.ret
                   /\ UNCHANGED padded
    /\ UNCHANGED <<input, instructions, labels, next_label, next_instr, table, call, ret>>

PrefixFed == padded \/ instructions.nvar + instructions.nlit = 0

\* One iteration of `for instruction in parser_output.instructions`
FeedInstruction ==
    /\ pc = "run"
    /\ LabelsRegistered
    /\ PrefixFed
    /\ next_instr <= Len(instructions.body)
    /\ LET r == feed_instruction(context, instructions.body[next_instr])
       IN  /\ context' = r.self
           /\ IF r.ret.ok
              THEN /\ next_instr' = next_instr + 1
                   /\ UNCHANGED <<pc, result>>
              ELSE /\ pc' = "done"
                   /\ result' = r.ret
                   /\ UNCHANGED next_instr
    /\ UNCHANGED <<input, instructions, labels, next_label, padded, table, call, ret>>

\* `Ok(self.context.into_output())`
Return ==
    /\ pc = "run"
    /\ LabelsRegistered
    /\ PrefixFed
    /\ next_instr > Len(instructions.body)
    /\ pc' = "done"
    /\ result' = Ok(into_output(context))
    /\ UNCHANGED <<input, instructions, labels, next_label, next_instr, padded,
                   context, table, call, ret>>

Next == Parse \/ RegisterLabel \/ FeedPrefix \/ FeedInstruction \/ Return

Spec == Init /\ [][Next]_vars

(***************************************************************************)
(* A SymbolTable driven through its public methods and through             *)
(* AInstruction::compile, as the tests of symbol_table.rs and              *)
(* instructions.rs drive it.  The table starts as SymbolTable::new() left  *)
(* it, or as start - 16 calls of increment_variable_index leave that table *)
(* (`input` keeps start).                                                  *)
(***************************************************************************)
MaxIncrements == 2  \* calls of increment_variable_index after the start

TableNames == BuiltInNames \cup {"some_var", "x"}
TableValues == {42, 101}
StartIndexes == {16} \cup {MEMORY_SIZE - s : s \in 0..Slack}

InitTable ==
    /\ input \in StartIndexes
    /\ table = [table |-> EmptyMap, anon |-> 0, variable_index |-> HackInt_new_unchecked(input)]
    /\ call = NoCall
    /\ ret = NoCall
    /\ pc = "table"
    /\ instructions = [nvar |-> 0, nlit |-> 0, body |-> <<>>]
    /\ labels = <<>>
    /\ next_label = 1
    /\ next_instr = 1
    /\ padded = FALSE
    /\ context = AssemblerContext_default
    /\ result = NoCall

\* table.set(name, value)
TableSet ==
    /\ pc = "table"
    /\ \E name \in TableNames, value \in TableValues :
          LET r == SymbolTable_set(table, name, value)
          IN  /\ table' = r.self
              /\ call' = [op |-> "set", name |-> name, value |-> value]
              /\ ret' = r.ret
    /\ UNCHANGED runVars

\* table.get(name)
TableGet ==
    /\ pc = "table"
    /\ \E name \in TableNames :
          /\ call' = [op |-> "get", name |-> name]
          /\ ret' = SymbolTable_get(table, name)
    /\ UNCHANGED <<table, runVars>>

\* table.increment_variable_index()
TableIncrement ==
    /\ pc = "table"
    /\ table.variable_index < input + MaxIncrements
    /\ LET r == SymbolTable_increment_variable_index(table)
       IN  /\ table' = r.self
           /\ call' = [op |-> "increment_variable_index"]
           /\ ret' = r.ret
    /\ UNCHANGED runVars

\* instr.compile(Some(&mut table))
TableCompile ==
    /\ pc = "table"
    /\ \E instr \in {Symbol(n) : n \in TableNames} \cup {Immediate(v) : v \in {0, HackInt_MAX}} :
          LET r == AInstruction_compile(instr, table)
          IN  /\ table' = r.self
              /\ call' = [op |-> "compile", instr |-> instr]
              /\ ret' = r.ret
    /\ UNCHANGED runVars

NextTable == TableIncrement \/ TableCompile \/ TableSet \/ TableGet

SpecTable == InitTable /\ [][NextTable]_vars

(***************************************************************************)
(* HackInt::parse and HackInt::try_new applied to one argument.            *)
(***************************************************************************)
MaxDigits == 5      \* characters of a literal

\* The digits of the values around the two limits (32767, 32768, 65535,
\* 65536, 70000), and 0 for leading zeros
DigitChars == {0, 2, 3, 5, 6, 7, 8}
TryNewValues == {0, 1, HackInt_MAX - 1, HackInt_MAX, HackInt_MAX + 1, U16 - 1}

InitHackInt ==
    /\ call \in {[op |-> "parse", digits |-> d] : d \in SeqsUpTo(DigitChars, MaxDigits)}
                \cup {[op |-> "try_new", value |-> v] : v \in TryNewValues}
    /\ ret = NoCall
    /\ pc = "hack_int"
    /\ input = <<>>
    /\ table = SymbolTable_new
    /\ instructions = [nvar |-> 0, nlit |-> 0, body |-> <<>>]
    /\ labels = <<>>
    /\ next_label = 1
    /\ next_instr = 1
    /\ padded = FALSE
    /\ context = AssemblerContext_default
    /\ result = NoCall

\* HackInt::parse(digits)
CallParse ==
    /\ pc = "hack_int"
    /\ call.op = "parse"
    /\ ret = NoCall
    /\ ret' = HackInt_parse(call.digits)
    /\ UNCHANGED <<call, table, runVars>>

\* HackInt::try_new(value)
CallTryNew ==
    /\ pc = "hack_int"
    /\ call.op = "try_new"
    /\ ret = NoCall
    /\ ret' = HackInt_try_new(call.value)
    /\ UNCHANGED <<call, table, runVars>>

NextHackInt == CallParse \/ CallTryNew

SpecHackInt == InitHackInt /\ [][NextHackInt]_vars

(***************************************************************************)
(* CInstruction::compile applied to one instruction.                       *)
(***************************************************************************)
DestKeys == {"M", "D", "MD", "A", "AM", "AD", "AMD"}
CompKeys ==
    {"0", "1", "-1", "D", "A", "!D", "!A", "-D", "-A", "D+1", "A+1", "D-1", "A-1",
     "D+A", "A+D", "D-A", "A-D", "D&A", "A&D", "D|A", "A|D", "M", "!M", "-M",
     "M+1", "M-1", "D+M", "M+D", "D-M", "M-D", "D&M", "M&D", "D|M", "M|D"}
JumpKeys == {"JGT", "JEQ", "JGE", "JLT", "JNE", "JLE", "JMP", ""}
\* the seven mnemonics among them
JumpMnemonics == JumpKeys \ {""}

\* The ways to write a destination: one to three distinct registers in any
\* order, and the text of each
Registers == {"A", "M", "D"}
DestOrderings ==
    {o \in UNION {[1..n -> Registers] : n \in 1..3} :
        \A a, b \in 1..Len(o) : a # b => o[a] # o[b]}
RECURSIVE Spell(_)
Spell(o) == IF o = <<>> THEN "" ELSE Head(o) \o Spell(Tail(o))

\* The instructions compile is applied to: every key of the three tables,
\* every way to write a destination, an absent destination and jump, and one
\* text that is no key of the computations and of the jumps
CInstructions ==
    {[destination |-> d, computation |-> c, jump |-> j] :
        d \in {None} \cup {Some(k) : k \in DestKeys \cup {Spell(o) : o \in DestOrderings}},
        c \in CompKeys \cup {"A+M"},
        j \in {None} \cup {Some(k) : k \in JumpKeys \cup {"JXX"}}}

InitEncode ==
    /\ call \in {[op |-> "compile", instr |-> i] : i \in CInstructions}
    /\ ret = NoCall
    /\ pc = "encode"
    /\ input = <<>>
    /\ table = SymbolTable_new
    /\ instructions = [nvar |-> 0, nlit |-> 0, body |-> <<>>]
    /\ labels = <<>>
    /\ next_label = 1
    /\ next_instr = 1
    /\ padded = FALSE
    /\ context = AssemblerContext_default
    /\ result = NoCall

\* instr.compile(None)
CallCompile ==
    /\ pc = "encode"
    /\ ret = NoCall
    /\ ret' = CInstruction_compile(call.instr)
    /\ UNCHANGED <<call, table, runVars>>

NextEncode == CallCompile

SpecEncode == InitEncode /\ [][NextEncode]_vars

(***************************************************************************)
(* An AssemblerContext driven through register_label and feed_instruction  *)
(* as assemble drives it: labels first, each at the index the parser       *)
(* recorded for it, then instructions; the first error ends the run.  The  *)
(* indexes are those of labels at the start of a program, at and just past *)
(* the largest HackInt, and at the first index a u16 cannot hold; the      *)
(* instructions are the first ones of such a program.                      *)
(***************************************************************************)
MaxFeeds == 2       \* instructions fed to one context

LabelIndexes == {0, HackInt_MAX, HackInt_MAX + 1, U16}
FedInstructions ==
    {a_instruction(line).val :
        line \in {SymbolLine("LOOP"), SymbolLine("END"), SymbolLine("i"),
                  SymbolLine("KBD"), LiteralLine(<<0>>), LiteralLine(<<3, 2, 7, 6, 7>>)}}
    \cup {c_instruction(CLine(Some(<<"M", "D">>),
                              [rule |-> "binary", parts |-> <<"D", "+", "A">>],
                              Some("JGT")))}

\* no call of the run has returned an error
NoErrorYet == IF ret = NoCall THEN TRUE ELSE ret.ok

InitContext ==
    /\ context = AssemblerContext_default
    /\ call = NoCall
    /\ ret = NoCall
    /\ pc = "context"
    /\ input = <<>>
    /\ table = SymbolTable_new
    /\ instructions = [nvar |-> 0, nlit |-> 0, body |-> <<>>]
    /\ labels = <<>>
    /\ next_label = 1
    /\ next_instr = 1
    /\ padded = FALSE
    /\ result = NoCall

\* context.register_label(label, index)?, before any instruction is fed
CtxRegisterLabel ==
    /\ pc = "context"
    /\ NoErrorYet
    /\ OutputLen(context.output) = 0
    /\ context.current_variable_address = 16
    /\ \E name \in {"LOOP", "END", "KBD"}, index \in LabelIndexes :
          LET r == register_label(context, [name |-> name], index)
          IN  /\ context' = r.self
              /\ call' = [op |-> "register_label", name |-> name, index |-> index]
              /\ ret' = r.ret
    /\ UNCHANGED <<input, pc, instructions, labels, next_label, next_instr, padded,
                   result, table>>

\* context.feed_instruction(instr)?
CtxFeed ==
    /\ pc = "context"
    /\ NoErrorYet
    /\ OutputLen(context.output) < MaxFeeds
    /\ \E instr \in FedInstructions :
          LET r == feed_instruction(context, instr)
          IN  /\ context' = r.self
              /\ call' = [op |-> "feed_instruction", instr |-> instr]
              /\ ret' = r.ret
    /\ UNCHANGED <<input, pc, instructions, labels, next_label, next_instr, padded,
                   result, table>>

NextContext == CtxRegisterLabel \/ CtxFeed

SpecContext == InitContext /\ [][NextContext]_vars

(***************************************************************************)
(* lib.rs: the static SYMBOL_TABLE, one SymbolTable behind a RwLock for    *)
(* the whole process, as the runs of tests/symbol_resolution.rs use it.    *)
(* `table` is the static, `input` the number of the run that is using it.  *)
(* A run sets and gets symbols through the lock; the next run begins with  *)
(* the static as the last one left it, unless it calls the tests'          *)
(* reset_and_lock_table first.                                             *)
(***************************************************************************)
MaxRuns == 2

\* SyncLazy::new(RwLock::default): SymbolTable::default() is SymbolTable::new()
InitGlobal ==
    /\ table = SymbolTable_new
    /\ input = 1
    /\ call = [op |-> "new_run"]
    /\ ret = NoCall
    /\ pc = "global"
    /\ instructions = [nvar |-> 0, nlit |-> 0, body |-> <<>>]
    /\ labels = <<>>
    /\ next_label = 1
    /\ next_instr = 1
    /\ padded = FALSE
    /\ context = AssemblerContext_default
    /\ result = NoCall

\* SYMBOL_TABLE.write().unwrap().set(name, value)
GlobalSet ==
    /\ pc = "global"
    /\ \E name \in TableNames, value \in TableValues :
          LET r == SymbolTable_set(table, name, value)
          IN  /\ table' = r.self
              /\ call' = [op |-> "set", name |-> name, value |-> value]
              /\ ret' = r.ret
    /\ UNCHANGED runVars

\* SYMBOL_TABLE.read().unwrap().get(name)
GlobalGet ==
    /\ pc = "global"
    /\ \E name \in TableNames :
          /\ call' = [op |-> "get", name |-> name]
          /\ ret' = SymbolTable_get(table, name)
    /\ UNCHANGED <<table, runVars>>

\* reset_and_lock_table(): `*guard = SymbolTable::default()`
ResetAndLock ==
    /\ pc = "global"
    /\ table' = SymbolTable_new
    /\ call' = [op |-> "reset"]
    /\ ret' = NoCall
    /\ UNCHANGED runVars

\* the next run begins: the static outlives the run before it
NewRun ==
    /\ pc = "global"
    /\ input < MaxRuns
    /\ input' = input + 1
    /\ call' = [op |-> "new_run"]
    /\ ret' = NoCall
    /\ UNCHANGED <<table, pc, instructions, labels, next_label, next_instr, padded,
                   context, result>>

NextGlobal == GlobalSet \/ GlobalGet \/ ResetAndLock \/ NewRun

SpecGlobal == InitGlobal /\ [][NextGlobal]_vars

(***************************************************************************)
(* What the claims speak of, read off the source text of the run (`input`) *)
(* line by line, not off what the parser and the context computed.         *)
(***************************************************************************)
Body == input.body
PrefixLen == input.nvar + input.nlit
MinOf(S) == CHOOSE x \in S : \A y \in S : x <= y

IsSymbolLine(line) == line.rule = "at_instruction" /\ line.inner = "symbol"
IsLiteralLine(line) == line.rule = "at_instruction" /\ line.inner = "literal"
InstrPos == {q \in 1..Len(Body) : Body[q].rule # "label"}
LabelPos == {q \in 1..Len(Body) : Body[q].rule = "label"}
\* the instructions that precede line q
InstrsBefore(q) == Cardinality({r \in InstrPos : r < q})
\* the line of the p-th instruction of the body
LineOfInstr(p) == CHOOSE q \in InstrPos : InstrsBefore(q) = p - 1
LabelNames == {Body[q].text : q \in LabelPos}
\* the address a label names: the instructions before its (first) line
LabelAddress(name) ==
    PrefixLen + InstrsBefore(MinOf({q \in LabelPos : Body[q].text = name}))
\* the symbols that are neither built-in nor a label, and their order of
\* first occurrence
IsVariable(name) == name \notin BuiltInNames /\ name \notin LabelNames
VariableNames == {Body[q].text : q \in {r \in InstrPos : IsSymbolLine(Body[r])
                                                        /\ IsVariable(Body[r].text)}}
FirstUse(name) == MinOf({q \in InstrPos : IsSymbolLine(Body[q]) /\ Body[q].text = name})
Rank(name) ==
    input.nvar + 1 + Cardinality({t \in VariableNames : FirstUse(t) < FirstUse(name)})
\* the variables the first p instructions of the body use
VariablesUsedBy(p) ==
    {t \in VariableNames : InstrsBefore(FirstUse(t)) < p}

\* the number a string of decimal digits denotes
RECURSIVE DigitsValue(_)
DigitsValue(digits) ==
    IF digits = <<>> THEN 0
    ELSE 10 * DigitsValue(SubSeq(digits, 1, Len(digits) - 1)) + digits[Len(digits)]

\* the instructions of the program, and those the parser handed over
InstructionCount == PrefixLen + Cardinality(InstrPos)
ParsedCount == instructions.nvar + instructions.nlit + Len(instructions.body)

\* the words emitted for the body's instructions so far, and the p-th
Emitted == Len(context.output.tail)
EmittedWord(p) == context.output.tail[p]
Returned == pc = "done" /\ result.ok

(***************************************************************************)
(* C1: In every run all labels are registered before the first instruction *)
(* is encoded: once a word is emitted or a variable allocated, every label *)
(* of the program is in the symbol table.  So in the words a run returns,  *)
(* every "@X" with X a label of the program, written before or after the   *)
(* reference, is X's instruction index, and no variable was allocated for  *)
(* a label: the cursor moved once per variable.                            *)
(***************************************************************************)
Encoding ==
    \/ OutputLen(context.output) > 0
    \/ context.current_variable_address > 16

C1_LabelsBeforeEncoding ==
    /\ Encoding =>
         \A j \in 1..Len(labels) : labels[j][1].name \in DOMAIN context.symbol_table.table
    /\ Returned =>
         /\ \A p \in 1..Len(result.val.tail) :
               LET line == Body[LineOfInstr(p)]
               IN  (IsSymbolLine(line) /\ line.text \in LabelNames)
                      => result.val.tail[p] = LabelAddress(line.text)
         /\ context.current_variable_address
               = 16 + input.nvar + Cardinality(VariableNames)

\* a run returned the words of a program that refers to a label both before
\* and after the label's line, the label not at address 0
C1_Witness ==
    /\ Returned
    /\ \E q \in LabelPos :
          /\ LabelAddress(Body[q].text) > 0
          /\ \E r \in InstrPos : r < q /\ Body[r] = SymbolLine(Body[q].text)
          /\ \E r \in InstrPos : r > q /\ Body[r] = SymbolLine(Body[q].text)

(***************************************************************************)
(* C2: Variables are allocated sequentially from 16: the word emitted for  *)
(* every occurrence of the k-th distinct symbol that is neither built-in   *)
(* nor a label, in order of first occurrence, is 16 + (k - 1), and the     *)
(* cursor stands at 16 + the number of distinct variables met so far (a    *)
(* later occurrence does not advance it).                                  *)
(***************************************************************************)
C2_SequentialVariables ==
    /\ \A p \in 1..Emitted :
          LET line == Body[LineOfInstr(p)]
          IN  (IsSymbolLine(line) /\ IsVariable(line.text))
                 => EmittedWord(p) = 16 + (Rank(line.text) - 1)
    /\ (pc = "run" /\ PrefixFed) \/ Returned =>
          context.current_variable_address
             = 16 + input.nvar + Cardinality(VariablesUsedBy(next_instr - 1))

\* a run emitted 16, 17 and again 16 for two variables
C2_Witness ==
    /\ Returned
    /\ input.nvar = 0
    /\ \E p1, p2, p3 \in 1..Emitted :
          /\ p1 < p2 /\ p2 < p3
          /\ Body[LineOfInstr(p1)] = SymbolLine("i")
          /\ Body[LineOfInstr(p2)] = SymbolLine("j")
          /\ Body[LineOfInstr(p3)] = SymbolLine("i")
          /\ EmittedWord(p1) = 16 /\ EmittedWord(p2) = 17 /\ EmittedWord(p3) = 16
          /\ context.current_variable_address = 18

(***************************************************************************)
(* C3: The index the parser records for a label is the number of A- and    *)
(* C-instructions before the label's line; a label line adds nothing to    *)
(* the instructions, so consecutive labels get the same index.             *)
(***************************************************************************)
Parsed == pc = "run" \/ Returned

C3_LabelIndex ==
    Parsed =>
       /\ Len(instructions.body) = Cardinality(InstrPos)
       /\ Len(labels) = Cardinality(LabelPos)
       /\ \A q \in LabelPos :
             LET j == 1 + Cardinality({r \in LabelPos : r < q})
             IN  labels[j] = <<[name |-> Body[q].text], PrefixLen + InstrsBefore(q)>>

\* the parser recorded two consecutive labels after one instruction, both at 1
C3_Witness ==
    /\ pc = "run"
    /\ PrefixLen = 0
    /\ \E q \in LabelPos :
          /\ q + 1 \in LabelPos
          /\ Body[q].text # Body[q + 1].text
          /\ InstrsBefore(q) = 1
          /\ \E j \in 1..(Len(labels) - 1) :
                /\ labels[j] = <<[name |-> Body[q].text], 1>>
                /\ labels[j + 1] = <<[name |-> Body[q + 1].text], 1>>

(***************************************************************************)
(* C4: For every built-in name, in every table any sequence of set, get,   *)
(* increment and compile calls leaves, get returns the documented value    *)
(* and set with any value fails with RedefinedBuiltIn and leaves the table *)
(* as it was.                                                              *)
(***************************************************************************)
\* the documented values of the built-in symbols
DocumentedValues ==
    {<<"R0", 0>>, <<"R1", 1>>, <<"R2", 2>>, <<"R3", 3>>, <<"R4", 4>>, <<"R5", 5>>,
     <<"R6", 6>>, <<"R7", 7>>, <<"R8", 8>>, <<"R9", 9>>, <<"R10", 10>>,
     <<"R11", 11>>, <<"R12", 12>>, <<"R13", 13>>, <<"R14", 14>>, <<"R15", 15>>,
     <<"SP", 0>>, <<"LCL", 1>>, <<"ARG", 2>>, <<"THIS", 3>>, <<"THAT", 4>>,
     <<"SCREEN", 16384>>, <<"KBD", 24576>>}
Documented(name) == (CHOOSE d \in DocumentedValues : d[1] = name)[2]

C4_BuiltInsFixed ==
    /\ BuiltInNames = {d[1] : d \in DocumentedValues}
    /\ \A name \in BuiltInNames :
          /\ SymbolTable_get(table, name) = Ok(Documented(name))
          /\ \A value \in TableValues \cup {Documented(name)} :
                SymbolTable_set(table, name, value)
                   = [self |-> table, ret |-> Err("RedefinedBuiltIn")]
          /\ (call.op = "get" /\ call.name = name) => ret = Ok(Documented(name))
          /\ (call.op = "set" /\ call.name = name) => ret = Err("RedefinedBuiltIn")
          /\ name \notin DOMAIN table.table

\* set("SCREEN", _) was refused on a table that holds user symbols and has
\* allocated variables
C4_Witness ==
    /\ call.op = "set"
    /\ call.name = "SCREEN"
    /\ ret = Err("RedefinedBuiltIn")
    /\ DOMAIN table.table = {"some_var", "x"}
    /\ table.variable_index > input

(***************************************************************************)
(* C5: User symbols are set once.  For a name that is not built-in: while  *)
(* it is not in the table get fails with NotDefined and set(name, v)       *)
(* succeeds, after which get returns v; once it is in the table get        *)
(* returns the stored value, every set (the stored value included) fails   *)
(* with Redefined and leaves the table as it was, and no later call        *)
(* changes or removes the stored value.                                    *)
(***************************************************************************)
UserNames == TableNames \ BuiltInNames

C5_State ==
    \A name \in UserNames :
       IF name \in DOMAIN table.table
       THEN /\ SymbolTable_get(table, name) = Ok(table.table[name])
            /\ \A w \in TableValues \cup {table.table[name]} :
                  SymbolTable_set(table, name, w)
                     = [self |-> table, ret |-> Err("Redefined")]
            /\ (call.op = "get" /\ call.name = name) => ret = Ok(table.table[name])
            /\ (call.op = "set" /\ call.name = name) =>
                  \/ ret = Ok("unit") /\ table.table[name] = call.value
                  \/ ret = Err("Redefined")
       ELSE /\ SymbolTable_get(table, name) = Err("NotDefined")
            /\ \A v \in TableValues :
                  LET r == SymbolTable_set(table, name, v)
                  IN  /\ r.ret = Ok("unit")
                      /\ SymbolTable_get(r.self, name) = Ok(v)
                      /\ \A other \in DOMAIN table.table :
                            r.self.table[other] = table.table[other]
            /\ (call.op = "get" /\ call.name = name) => ret = Err("NotDefined")
            /\ ~(call.op = "set" /\ call.name = name)

C5_Step ==
    /\ \A name \in DOMAIN table.table :
          name \in DOMAIN table'.table /\ table'.table[name] = table.table[name]
    /\ \A name \in UserNames :
          (call'.op = "set" /\ call'.name = name /\ name \in DOMAIN table.table)
             => (ret' = Err("Redefined") /\ table' = table)

C5_SetOnce == []C5_State /\ [][C5_Step]_vars

\* set("some_var", 42) was refused with Redefined on a table where some_var
\* is 42 already
C5_Witness ==
    /\ call = [op |-> "set", name |-> "some_var", value |-> 42]
    /\ ret = Err("Redefined")
    /\ "some_var" \in DOMAIN table.table
    /\ table.table["some_var"] = 42

(***************************************************************************)
(* C6: Variable allocation fails with a capacity error once the cursor     *)
(* would exceed 16383: the cursor of the table never exceeds 16383, every  *)
(* address compile hands out to a variable lies in 16 .. 16383, below      *)
(* SCREEN, and a compile that fails fails with TooManyVariables.           *)
(***************************************************************************)
SCREEN == 16384

C6_VariableCapacity ==
    /\ table.variable_index <= MEMORY_SIZE
    /\ ( /\ call.op = "compile"
         /\ call.instr.kind = "Symbol"
         /\ call.instr.name \in UserNames
         /\ ret.ok
         /\ ret.val \notin TableValues )
       => (ret.val \in 16..MEMORY_SIZE /\ ret.val < SCREEN)
    /\ (call.op = "compile" /\ ~ret.ok) => ret.err = "TooManyVariables"

(***************************************************************************)
(* The label lines that fail to register, and the feeding of a body        *)
(* instruction with the output already at the ROM's capacity.              *)
(***************************************************************************)
BadLabels ==
    {q \in LabelPos : \/ Body[q].text \in BuiltInNames
                      \/ \E r \in LabelPos : r < q /\ Body[r].text = Body[q].text}

AtCapacityFeed ==
    /\ pc = "run"
    /\ LabelsRegistered
    /\ PrefixFed
    /\ next_instr <= Len(instructions.body)
    /\ OutputLen(context.output) >= ROM_SIZE

\* the instruction about to be fed names a symbol the table does not hold
\* while no variable address is free
NoAddressForNext ==
    LET instr == instructions.body[next_instr]
    IN  /\ instr.type = "AInstruction"
        /\ instr.value.kind = "Symbol"
        /\ instr.value.name \notin BuiltInNames
        /\ instr.value.name \notin DOMAIN context.symbol_table.table
        /\ context.current_variable_address >= MEMORY_SIZE

(***************************************************************************)
(* C7 as stated: The output never holds more than ROM_SIZE (32767) words;  *)
(* feeding an instruction with the output at capacity fails with           *)
(* TooManyInstructions and appends nothing; so a program of more than      *)
(* ROM_SIZE instructions ends in TooManyInstructions.                      *)
(***************************************************************************)
C7_StatedState ==
    /\ OutputLen(context.output) <= ROM_SIZE
    /\ (pc = "done" /\ ParsedCount > ROM_SIZE) => result = Err("TooManyInstructions")

C7_StatedStep ==
    AtCapacityFeed =>
       /\ pc' = "done"
       /\ result' = Err("TooManyInstructions")
       /\ context'.output = context.output

C7_AsStated == []C7_StatedState /\ [][C7_StatedStep]_vars

(***************************************************************************)
(* C7: The output never holds more than ROM_SIZE (32767) words.  Feeding   *)
(* an instruction with the output at capacity appends nothing and ends the *)
(* run with an error: TooManyInstructions, or TooManyVariables when the    *)
(* instruction names a new variable and no address is free (the address is *)
(* looked up before the word is pushed).  A program of more than ROM_SIZE  *)
(* instructions never returns words; it ends in TooManyInstructions when   *)
(* its labels register and its variables fit; and TooManyInstructions is   *)
(* only ever the result with the output exactly at capacity.               *)
(***************************************************************************)
C7_State ==
    /\ OutputLen(context.output) <= ROM_SIZE
    /\ (pc = "done" /\ result.ok) =>
          /\ OutputLen(result.val) = InstructionCount
          /\ InstructionCount <= ROM_SIZE
    /\ (pc = "done" /\ ~result.ok /\ result.err = "TooManyInstructions") =>
          /\ OutputLen(context.output) = ROM_SIZE
          /\ ParsedCount > ROM_SIZE
    /\ (pc = "done" /\ ParsedCount > ROM_SIZE) =>
          /\ ~result.ok
          /\ (BadLabels = {} /\ input.nvar + Cardinality(VariableNames) <= FreeAddresses)
                => result = Err("TooManyInstructions")

C7_Step ==
    AtCapacityFeed =>
       /\ pc' = "done"
       /\ context'.output = context.output
       /\ IF NoAddressForNext
          THEN result' = Err("TooManyVariables")
          ELSE result' = Err("TooManyInstructions")

C7_RomCapacity == []C7_State /\ [][C7_Step]_vars

\* a run whose output was filled to capacity ended in TooManyInstructions when
\* it fed the next instruction of the program, the output still at capacity
C7_Witness ==
    /\ pc = "done"
    /\ result = Err("TooManyInstructions")
    /\ OutputLen(context.output) = ROM_SIZE
    /\ padded
    /\ next_instr <= Len(instructions.body)

(***************************************************************************)
(* What a run of the program returns, read off its lines in the order the  *)
(* steps of assemble meet them: the parser's literals, then the labels,    *)
(* then one instruction after the other.                                   *)
(***************************************************************************)
BadLiterals ==
    {q \in InstrPos : IsLiteralLine(Body[q]) /\ DigitsValue(Body[q].digits) > HackInt_MAX}

\* the first use of a variable for which no address below MEMORY_SIZE is left
VarFail(q) ==
    /\ IsSymbolLine(Body[q])
    /\ IsVariable(Body[q].text)
    /\ FirstUse(Body[q].text) = q
    /\ Rank(Body[q].text) > FreeAddresses
\* an instruction after the ROM_SIZE-th
RomFail(q) == PrefixLen + InstrsBefore(q) >= ROM_SIZE
FeedFails == {q \in InstrPos : VarFail(q) \/ RomFail(q)}

\* "MD=D+A;JGT" and "0;jmp" in binary
ExpectedC(line) ==
    CASE line = CLine(Some(<<"M", "D">>), [rule |-> "binary", parts |-> <<"D", "+", "A">>],
                      Some("JGT")) -> 57497
      [] line = CLine(None, [rule |-> "constant", parts |-> <<"0">>], Some("jMp")) -> 60039

ExpectedWord(q) ==
    LET line == Body[q]
    IN  CASE IsLiteralLine(line) -> DigitsValue(line.digits)
          [] line.rule = "c_instruction" -> ExpectedC(line)
          [] IsSymbolLine(line) /\ line.text \in BuiltInNames -> Documented(line.text)
          [] IsSymbolLine(line) /\ line.text \notin BuiltInNames
                                /\ line.text \in LabelNames -> LabelAddress(line.text)
          [] IsSymbolLine(line) /\ IsVariable(line.text) -> 16 + (Rank(line.text) - 1)

ExpectedResult ==
    IF BadLiterals # {}
    THEN Err(IF DigitsValue(Body[MinOf(BadLiterals)].digits) >= U16
             THEN "ParseInt" ELSE "SizeExceeded")
    ELSE IF BadLabels # {}
    THEN Err(IF Body[MinOf(BadLabels)].text \in BuiltInNames
             THEN "RedefinedBuiltIn" ELSE "Redefined")
    ELSE IF input.nvar > FreeAddresses THEN Err("TooManyVariables")
    ELSE IF PrefixLen > ROM_SIZE THEN Err("TooManyInstructions")
    ELSE IF FeedFails # {}
    THEN Err(IF VarFail(MinOf(FeedFails))
             THEN "TooManyVariables" ELSE "TooManyInstructions")
    ELSE Ok([vars |-> input.nvar, lits |-> input.nlit,
             tail |-> [p \in 1..Cardinality(InstrPos) |-> ExpectedWord(LineOfInstr(p))]])

(***************************************************************************)
(* C8: A run is all-or-nothing.  Nothing is returned before the run ends;  *)
(* it then returns either the complete words, one per instruction of the   *)
(* program and the i-th the encoding of the i-th instruction, or the one   *)
(* error of the first step that fails (parse, then labels, then the        *)
(* instructions in order) and no words, whatever was encoded before.       *)
(***************************************************************************)
C8_AllOrNothing ==
    /\ pc \in {"start", "run"} => result = NoCall
    /\ pc = "done" =>
          /\ result = ExpectedResult
          /\ result.ok => OutputLen(result.val) = InstructionCount
          /\ ~result.ok => DOMAIN result = {"ok", "err"}

\* a run that had encoded words of the program ended in an error
C8_Witness ==
    /\ pc = "done"
    /\ ~result.ok
    /\ next_instr > 1
    /\ Len(context.output.tail) >= 1

(***************************************************************************)
(* C9: For every string of decimal digits denoting v, HackInt::parse       *)
(* returns v when v <= 32767 and fails with SizeExceeded when v > 32767    *)
(* (32768, 65535, 65536, 70000, ...), never with ParseInt.                 *)
(***************************************************************************)
C9_ParseRange ==
    (call.op = "parse" /\ call.digits # <<>> /\ ret # NoCall) =>
       LET v == DigitsValue(call.digits)
       IN  IF v <= HackInt_MAX THEN ret = Ok(v) ELSE ret = Err("SizeExceeded")

(***************************************************************************)
(* The destinations that write each register, and the n-th bit and the     *)
(* n-bit field at bit `low` of a word.                                     *)
(***************************************************************************)
WritesA == {"A", "AM", "AD", "AMD"}
WritesD == {"D", "MD", "AD", "AMD"}
WritesM == {"M", "MD", "AM", "AMD"}
Bit(word, n) == (word \div 2^n) % 2
Field(word, low, n) == (word \div 2^low) % 2^n

\* the instructions C10 speaks of: a key of DEST_TABLE or no destination, a
\* key of COMP_TABLE, and one of the seven jump mnemonics or no jump
Encodable(instr) ==
    /\ instr.destination \in {None} \cup {Some(k) : k \in DestKeys}
    /\ instr.computation \in CompKeys
    /\ instr.jump \in {None} \cup {Some(k) : k \in JumpMnemonics}

(***************************************************************************)
(* C10: For every C-instruction whose destination is absent or one of M,   *)
(* D, MD, A, AM, AD, AMD, whose computation is a key of COMP_TABLE and     *)
(* whose jump is absent or one of JGT .. JMP, compile returns a 16-bit     *)
(* word with 111 in bits 15..13, the computation's 7 bits in bits 12..6,   *)
(* the destination in bits 5..3 (A = bit 5, D = bit 4, M = bit 3) and the  *)
(* jump's 3 bits in bits 2..0.  The entry of each table lies within its    *)
(* own field, and an absent destination or jump leaves its field zero.     *)
(***************************************************************************)
C10_BitLayout ==
    (call.op = "compile" /\ pc = "encode" /\ ret # NoCall /\ Encodable(call.instr)) =>
       LET instr == call.instr
           comp == Unwrap(COMP_TABLE(instr.computation))
           jump == IF instr.jump = None THEN 0 ELSE Unwrap(JMP_TABLE(Unwrap(instr.jump)))
           dest == IF instr.destination = None THEN "" ELSE Unwrap(instr.destination)
       IN  /\ ret.ok
           /\ ret.val \in 0..(U16 - 1)
           /\ Field(ret.val, 13, 3) = 7
           /\ comp = Field(comp, 6, 7) * 64
           /\ Field(ret.val, 6, 7) = Field(comp, 6, 7)
           /\ Bit(ret.val, 5) = IF dest \in WritesA THEN 1 ELSE 0
           /\ Bit(ret.val, 4) = IF dest \in WritesD THEN 1 ELSE 0
           /\ Bit(ret.val, 3) = IF dest \in WritesM THEN 1 ELSE 0
           /\ instr.destination # None =>
                 Unwrap(DEST_TABLE(dest)) = Field(ret.val, 3, 3) * 8
           /\ jump \in 0..7
           /\ instr.jump # None => jump > 0
           /\ Field(ret.val, 0, 3) = jump
           /\ ret.val = 57344 + comp + Field(ret.val, 3, 3) * 8 + jump

\* "AMD=D+M;JMP" was compiled to 1111000010111111
C10_Witness ==
    /\ pc = "encode"
    /\ call.instr = [destination |-> Some("AMD"), computation |-> "D+M", jump |-> Some("JMP")]
    /\ ret = Ok(61631)

(***************************************************************************)
(* C11: The destination is order-insensitive: for every way to write one   *)
(* to three distinct registers of A, M, D (MD and DM, AMD and DMA, ...),   *)
(* compile accepts the instruction and the destination bits of the word    *)
(* depend only on the set of registers (A = bit 5, D = bit 4, M = bit 3).  *)
(***************************************************************************)
C11_DestinationOrder ==
    \A o \in DestOrderings :
       ( /\ pc = "encode" /\ call.op = "compile" /\ ret # NoCall
         /\ call.instr.destination = Some(Spell(o))
         /\ call.instr.computation \in CompKeys
         /\ call.instr.jump \in {None} \cup {Some(k) : k \in JumpKeys} )
       => LET has(r) == \E k \in 1..Len(o) : o[k] = r
          IN  /\ ret.ok
              /\ Bit(ret.val, 5) = IF has("A") THEN 1 ELSE 0
              /\ Bit(ret.val, 4) = IF has("D") THEN 1 ELSE 0
              /\ Bit(ret.val, 3) = IF has("M") THEN 1 ELSE 0

(***************************************************************************)
(* C12: Registering a label whose name is a built-in ends the run with     *)
(* RedefinedBuiltIn, registering one whose name an earlier label line      *)
(* registered ends it with Redefined, the context left as it was; any      *)
(* other label is registered.  A run that ended in either error            *)
(* encoded no instruction, allocated no variable and returned no words,    *)
(* and a parsed program with such a label ends in the error of the first.  *)
(***************************************************************************)
C12_Step ==
    (pc = "run" /\ next_label <= Len(labels)) =>
       LET name == labels[next_label][1].name
       IN  IF name \in BuiltInNames
           THEN pc' = "done" /\ result' = Err("RedefinedBuiltIn") /\ context' = context
           ELSE IF \E j \in 1..(next_label - 1) : labels[j][1].name = name
           THEN pc' = "done" /\ result' = Err("Redefined") /\ context' = context
           ELSE /\ pc' = "run" /\ result' = NoCall
                /\ next_label' = next_label + 1
                /\ get_symbol(context', name).ok

C12_State ==
    /\ (pc = "done" /\ ~result.ok /\ result.err \in {"RedefinedBuiltIn", "Redefined"}) =>
          /\ BadLiterals = {} /\ BadLabels # {}
          /\ OutputLen(context.output) = 0
          /\ context.current_variable_address = 16
          /\ next_instr = 1 /\ ~padded
          /\ DOMAIN result = {"ok", "err"}
    /\ (pc = "done" /\ BadLiterals = {} /\ BadLabels # {}) =>
          result = Err(IF Body[MinOf(BadLabels)].text \in BuiltInNames
                       THEN "RedefinedBuiltIn" ELSE "Redefined")

C12_LabelRedefinition == []C12_State /\ [][C12_Step]_vars

\* a run ended in Redefined at the second line of a label, with instruction
\* lines before it and nothing encoded
C12_Witness ==
    /\ pc = "done"
    /\ result = Err("Redefined")
    /\ OutputLen(context.output) = 0
    /\ \E q \in BadLabels : \E r \in InstrPos : r < q

(***************************************************************************)
(* C13: Runs are isolated: every run starts from a symbol table holding    *)
(* only the built-ins, with the cursor at 16, so no symbol an earlier run  *)
(* defined is visible in it: at the start of a run, get of a name that is  *)
(* not built-in fails with NotDefined.                                     *)
(***************************************************************************)
C13_RunsIsolated ==
    (pc = "global" /\ call.op = "new_run") =>
       /\ table = SymbolTable_new
       /\ \A name \in UserNames : SymbolTable_get(table, name) = Err("NotDefined")

(***************************************************************************)
(* C14: No bounded integer outside 0 .. 32767 is constructed and nothing   *)
(* is truncated or wrapped: in every state of a run every value stored in  *)
(* the symbol table, the free-variable cursor and the instruction counter  *)
(* lie in 0 .. 32767, the address stored for a label is the label's        *)
(* instruction index, and a run with a label whose index does not fit ends *)
(* in an error.                                                            *)
(***************************************************************************)
C14_NoTruncation ==
    pc \in {"start", "run", "done"} =>
       /\ \A name \in DOMAIN context.symbol_table.table :
             context.symbol_table.table[name] \in 0..HackInt_MAX
       /\ context.current_variable_address \in 0..HackInt_MAX
       /\ context.current_label_address \in 0..HackInt_MAX
       /\ \A name \in DOMAIN context.symbol_table.table :
             name \in LabelNames => context.symbol_table.table[name] = LabelAddress(name)
       /\ (pc = "done" /\ BadLiterals = {}
             /\ \E q \in LabelPos : PrefixLen + InstrsBefore(q) > HackInt_MAX)
          => ~result.ok

(***************************************************************************)
(* C15: The allocation fallback applies only to unresolved names.  Compile *)
(* of an A-instruction whose symbol the table resolves (a built-in, or a   *)
(* name set or allocated before) returns exactly the stored value and      *)
(* leaves the table, its user entries and its cursor, as it was; compile   *)
(* of an unresolved name, when it succeeds, stores the name at the cursor,  *)
(* returns that address and moves the cursor by one.                       *)
(***************************************************************************)
C15_Step ==
    (pc = "table" /\ call'.op = "compile" /\ call'.instr.kind = "Symbol") =>
       LET name == call'.instr.name
       IN  IF name \in BuiltInNames
           THEN ret' = Ok(Documented(name)) /\ table' = table
           ELSE IF name \in DOMAIN table.table
           THEN ret' = Ok(table.table[name]) /\ table' = table
           ELSE ret'.ok =>
                /\ ret' = Ok(table.variable_index)
                /\ table'.variable_index = table.variable_index + 1
                /\ DOMAIN table'.table = DOMAIN table.table \cup {name}
                /\ table'.table[name] = table.variable_index
                /\ \A other \in DOMAIN table.table : table'.table[other] = table.table[other]

C15_LookupIsPure == [][C15_Step]_vars

\* compile looked up x, allocated at 16 before some_var was allocated at 17,
\* and returned 16 with the cursor still at 18
C15_Witness ==
    /\ pc = "table"
    /\ call = [op |-> "compile", instr |-> Symbol("x")]
    /\ ret = Ok(16)
    /\ "x" \in DOMAIN table.table /\ table.table["x"] = 16
    /\ "some_var" \in DOMAIN table.table /\ table.table["some_var"] = 17
    /\ table.variable_index = 18

(***************************************************************************)
(* C16: Every word emitted for an A-instruction has its top bit 0 and the  *)
(* value in its low 15 bits: for a literal v the word is v, for a symbol   *)
(* the word is the resolved address and is at most 32767; so every word of *)
(* an output is below 32768 or has 111 in its top three bits.              *)
(***************************************************************************)
C16_AInstructionWord ==
    /\ (pc = "context" /\ call.op = "feed_instruction" /\ ret.ok
          /\ call.instr.type = "AInstruction") =>
          LET word == OutputWord(context.output, OutputLen(context.output))
          IN  /\ word \in 0..HackInt_MAX
              /\ Bit(word, 15) = 0
              /\ call.instr.value.kind = "Literal" => word = call.instr.value.val
              /\ call.instr.value.kind = "Symbol" =>
                    get_symbol(context, call.instr.value.name) = Ok(word)
    /\ pc = "context" =>
          \A p \in 1..OutputLen(context.output) :
             LET word == OutputWord(context.output, p)
             IN  word < 32768 \/ Field(word, 13, 3) = 7

(***************************************************************************)
(* The binary computations as the grammar hands them to `binary`: the      *)
(* register pairs {D, A} and {D, M} in both orders around + - & |, the     *)
(* text each is written as, and the Computation each is.                   *)
(***************************************************************************)
BinaryParts ==
    {<<r[1], op, r[2]>> :
        r \in {<<"D", "A">>, <<"A", "D">>, <<"D", "M">>, <<"M", "D">>},
        op \in {"+", "-", "&", "|"}}
BinaryText(parts) == parts[1] \o parts[2] \o parts[3]
OperatorName(op) ==
    CASE op = "+" -> "Add" [] op = "-" -> "Sub" [] op = "|" -> "Or" [] op = "&" -> "And"
Commutative == {"+", "&", "|"}

\* two computation texts are the same operation up to commutation: the same
\* text, or the two operand orders of one of + & |
SameOperation(k1, k2) ==
    \/ k1 = k2
    \/ \E p \in BinaryParts :
          /\ p[2] \in Commutative
          /\ k1 = BinaryText(p)
          /\ k2 = BinaryText(<<p[3], p[2], p[1]>>)

(***************************************************************************)
(* C17: Operand order of a binary computation is irrelevant for + & | and  *)
(* preserved for subtraction.  `binary` keeps the operands in the order    *)
(* written; for the pairs {D, A} and {D, M} both orders of + & | are keys  *)
(* of COMP_TABLE and compile gives them the same computation bits (12..6), *)
(* while D-A and A-D, and D-M and M-D, get different bits; and any two     *)
(* keys of COMP_TABLE get the same computation bits exactly when they are  *)
(* the same operation up to this commutation.                              *)
(***************************************************************************)
C17_OperandOrder ==
    (pc = "encode" /\ call.op = "compile" /\ ret # NoCall /\ Encodable(call.instr)) =>
       LET instr == call.instr
           with(k) == CInstruction_compile([instr EXCEPT !.computation = k])
           bits(k) == Field(with(k).val, 6, 7)
       IN  /\ ret.ok
           /\ \A p \in BinaryParts :
                 BinaryText(p) = instr.computation =>
                    LET swapped == <<p[3], p[2], p[1]>>
                        parsed == binary([rule |-> "binary", parts |-> p])
                    IN  /\ parsed = [op |-> OperatorName(p[2]), reg1 |-> p[1], reg2 |-> p[3]]
                        /\ CompKey(parsed) = instr.computation
                        /\ with(BinaryText(swapped)).ok
                        /\ p[2] \in Commutative =>
                              Field(ret.val, 6, 7) = bits(BinaryText(swapped))
                        /\ p[2] = "-" =>
                              Field(ret.val, 6, 7) # bits(BinaryText(swapped))
           /\ \A k \in CompKeys :
                 /\ with(k).ok
                 /\ Field(ret.val, 6, 7) = bits(k) <=> SameOperation(instr.computation, k)

\* "D=A-D" was compiled to 1110000111010000: the bits of A-D, not those of
\* D-A (0010011)
C17_Witness ==
    /\ pc = "encode"
    /\ call.instr = [destination |-> Some("D"), computation |-> "A-D", jump |-> None]
    /\ ret = Ok(57808)
    /\ Field(ret.val, 6, 7) = 7
    /\ Field(CInstruction_compile([call.instr EXCEPT !.computation = "D-A"]).val, 6, 7) = 19

====
